---- MODULE Spec2Model ----
(***************************************************************************)
(* The in-memory banking ledger of src/Final_Implementation:               *)
(* BankingSystemImpl with its account dictionary, per-account transaction  *)
(* logs, deferred cashbacks, account merges and replay-based historical    *)
(* balances.                                                               *)
(*                                                                         *)
(* A Python dict is a TLA+ function; "key in dict" is membership in its    *)
(* DOMAIN, so an account without "merged_at" and a transaction without     *)
(* "merged_at"/"deposited" simply lack that field.  d[k] = v on a dict is  *)
(* (k :> v) @@ d.                                                          *)
(***************************************************************************)
EXTENDS Integers, Sequences, FiniteSets, TLC

\* whole_accounts, payment_counter: the fields of BankingSystemImpl.
\* now: the timestamp of the latest call (timestamps never decrease).
\* call, ret: the method called last and the value it returned.
VARIABLES whole_accounts, payment_counter, now, call, ret

\* pay_amount, cashback_amount: the amount argument of a pay call and the
\* local computed from it, as Python integers of any size (see "Python
\* numbers" below).
VARIABLES pay_amount, cashback_amount

\* _balances, _outgoing_total: the fields of the Level 1-2 draft of
\* src/Shivani; draft_ret: the value its latest call returned.
VARIABLES _balances, _outgoing_total, draft_ret

numbers == <<pay_amount, cashback_amount>>

draft == <<_balances, _outgoing_total, draft_ret>>

vars == <<whole_accounts, payment_counter, now, call, ret, numbers, draft>>

(***************************************************************************)
(* Program constant.                                                       *)
(***************************************************************************)
MILLISECONDS_IN_1_DAY == 86400000

(***************************************************************************)
(* Bounds of the model and the inputs the operations are called with.      *)
(***************************************************************************)
MaxEntries == 2
MaxPayments == 2

\* The account ids the callers use, listed in Python's string order.
AccountIds == <<"a", "b">>

Ids == {AccountIds[i] : i \in 1..Len(AccountIds)}

\* Timestamps of the calls that record transactions: the first instant, and
\* the instant at which a cashback scheduled at the first instant is due.
Times == {1, 1 + MILLISECONDS_IN_1_DAY}

\* Timestamps of the queries: also the last instant before that cashback is
\* due, so that both sides of the "t0 + one day" boundary are observed.
QueryTimes == Times \cup {MILLISECONDS_IN_1_DAY}

\* time_at arguments of get_balance: the timestamps at which accounts are
\* created, merged and written to, and one before all.
TimesAt == {0} \cup Times

\* Amounts: 100 earns a cashback of 2.
Amounts == {100}

\* n arguments of top_spenders: from none to all the accounts there can be.
Ns == 0..Len(AccountIds)

(***************************************************************************)
(* Return values.  Python returns None, a bool, an int, a str or a list;   *)
(* one record shape holds them all.                                        *)
(***************************************************************************)
RetNone == [kind |-> "None", b |-> FALSE, i |-> 0, s |-> "", l |-> << >>]

RetBool(v) == [kind |-> "bool", b |-> v, i |-> 0, s |-> "", l |-> << >>]

RetInt(v) == [kind |-> "int", b |-> FALSE, i |-> v, s |-> "", l |-> << >>]

RetStr(v) == [kind |-> "str", b |-> FALSE, i |-> 0, s |-> v, l |-> << >>]

RetList(v) == [kind |-> "list", b |-> FALSE, i |-> 0, s |-> "", l |-> v]

(***************************************************************************)
(* Helpers on strings and dicts.                                           *)
(***************************************************************************)
\* f"payment{self.payment_counter}"
PaymentId(counter) == "payment" \o ToString(counter)

\* payment arguments of get_payment_status: the identifiers pay can return
\* and the name of another transaction kind.
PaymentArgs == {PaymentId(k) : k \in 1..MaxPayments} \cup {"deposit"}

\* The operations recorded in a log: a payment and the cashback scheduled with
\* it are one entry.  MaxEntries bounds it for every log.
Entries(transactions) ==
    Cardinality({i \in 1..Len(transactions) :
                    transactions[i].operation # "cashback"})

\* str.startswith
StartsWith(s, prefix) ==
    /\ Len(s) >= Len(prefix)
    /\ SubSeq(s, 1, Len(prefix)) = prefix

\* "merged_at" in d
IsMerged(d) == "merged_at" \in DOMAIN d

\* account_id in whole_accounts and not merged
IsActive(wa, id) == id \in DOMAIN wa /\ ~IsMerged(wa[id])

(***************************************************************************)
(* Python numbers.  A Python int has any size; a non-negative one is the   *)
(* sequence of its digits in base 2^15, least significant first, without   *)
(* high zeros (0 is the empty sequence).  A Python float is an IEEE 754    *)
(* double: [m, e] stands for m * 2^e with m of at most 53 binary digits (a *)
(* rounding that carries out of the 53rd digit leaves m = 2^53, the same   *)
(* value).  Infinities and subnormals are out of the range of the amounts. *)
(***************************************************************************)
Base == 32768

RECURSIVE DigitsOf(_)
DigitsOf(n) == IF n = 0 THEN << >> ELSE <<n % Base>> \o DigitsOf(n \div Base)

RECURSIVE ValueOf(_)
ValueOf(digits) ==
    IF digits = << >> THEN 0
    ELSE Head(digits) + Base * ValueOf(Tail(digits))

RECURSIVE Normalize(_)
Normalize(digits) ==
    IF digits = << >> THEN << >>
    ELSE IF digits[Len(digits)] = 0
         THEN Normalize(SubSeq(digits, 1, Len(digits) - 1))
         ELSE digits

\* x + y + carry
RECURSIVE AddDigits(_, _, _)
AddDigits(x, y, carry) ==
    IF x = << >> /\ y = << >> THEN (IF carry = 0 THEN << >> ELSE <<carry>>)
    ELSE LET a == IF x = << >> THEN 0 ELSE Head(x)
             b == IF y = << >> THEN 0 ELSE Head(y)
             sum == a + b + carry
         IN <<sum % Base>> \o AddDigits(IF x = << >> THEN x ELSE Tail(x),
                                        IF y = << >> THEN y ELSE Tail(y),
                                        sum \div Base)

\* x * d + carry, for one digit d
RECURSIVE ScaleDigits(_, _, _)
ScaleDigits(x, d, carry) ==
    IF x = << >> THEN (IF carry = 0 THEN << >> ELSE <<carry>>)
    ELSE LET product == Head(x) * d + carry
         IN <<product % Base>> \o ScaleDigits(Tail(x), d, product \div Base)

\* x * y
RECURSIVE MulDigits(_, _)
MulDigits(x, y) ==
    IF x = << >> \/ y = << >> THEN << >>
    ELSE LET rest == MulDigits(Tail(x), y)
             shifted == IF rest = << >> THEN << >> ELSE <<0>> \o rest
         IN Normalize(AddDigits(ScaleDigits(y, Head(x), 0), shifted, 0))

\* The number of binary digits of a number below 2^15.
RECURSIVE SmallBitLength(_)
SmallBitLength(n) == IF n = 0 THEN 0 ELSE 1 + SmallBitLength(n \div 2)

\* int.bit_length
BitLength(digits) ==
    IF digits = << >> THEN 0
    ELSE 15 * (Len(digits) - 1) + SmallBitLength(digits[Len(digits)])

\* Binary digit i (from 1, the least significant) of a number.
Bit(digits, i) ==
    IF i < 1 \/ i > 15 * Len(digits) THEN 0
    ELSE (digits[((i - 1) \div 15) + 1] \div (2 ^ ((i - 1) % 15))) % 2

\* The number whose binary digit i is that of digits at i + k (k of any
\* sign): digits * 2^-k truncated.
Shifted(digits, k) ==
    Normalize([j \in 1..((BitLength(digits) - k + 14) \div 15) |->
        Bit(digits, 15 * (j - 1) + 1 + k)
        + 2 * Bit(digits, 15 * (j - 1) + 2 + k)
        + 4 * Bit(digits, 15 * (j - 1) + 3 + k)
        + 8 * Bit(digits, 15 * (j - 1) + 4 + k)
        + 16 * Bit(digits, 15 * (j - 1) + 5 + k)
        + 32 * Bit(digits, 15 * (j - 1) + 6 + k)
        + 64 * Bit(digits, 15 * (j - 1) + 7 + k)
        + 128 * Bit(digits, 15 * (j - 1) + 8 + k)
        + 256 * Bit(digits, 15 * (j - 1) + 9 + k)
        + 512 * Bit(digits, 15 * (j - 1) + 10 + k)
        + 1024 * Bit(digits, 15 * (j - 1) + 11 + k)
        + 2048 * Bit(digits, 15 * (j - 1) + 12 + k)
        + 4096 * Bit(digits, 15 * (j - 1) + 13 + k)
        + 8192 * Bit(digits, 15 * (j - 1) + 14 + k)
        + 16384 * Bit(digits, 15 * (j - 1) + 15 + k)])

\* The double nearest to n * 2^e, ties to the even mantissa: the rounding of
\* int-to-float conversion and of float multiplication.
RoundToDouble(n, e) ==
    IF BitLength(n) <= 53 THEN [m |-> n, e |-> e]
    ELSE LET cut == BitLength(n) - 53
             kept == Shifted(n, cut)
             up == /\ Bit(n, cut) = 1
                   /\ \/ \E i \in 1..(cut - 1) : Bit(n, i) = 1
                      \/ Bit(n, cut + 1) = 1
         IN [m |-> IF up THEN AddDigits(kept, <<1>>, 0) ELSE kept,
             e |-> e + cut]

\* The number written with these hexadecimal digits, most significant first.
RECURSIVE HexDigits(_)
HexDigits(hex) ==
    IF hex = << >> THEN << >>
    ELSE ScaleDigits(HexDigits(SubSeq(hex, 1, Len(hex) - 1)), 16,
                     hex[Len(hex)])

\* The literal 0.02: the double 0x3F947AE147AE147B, 0x147AE147AE147B * 2^-58.
Double002 ==
    [m |-> HexDigits(<<1, 4, 7, 10, 14, 1, 4, 7, 10, 14, 1, 4, 7, 11>>),
     e |-> 0 - 58]

\* float * float
MulDouble(x, y) == RoundToDouble(MulDigits(x.m, y.m), x.e + y.e)

\* int(float) of a non-negative float: truncation.
IntOfDouble(x) == Shifted(x.m, 0 - x.e)

\* int(amount * 0.02): amount is converted to a float, multiplied by the
\* float 0.02, and the product is truncated.
CashbackDigits(amount) ==
    IntOfDouble(MulDouble(RoundToDouble(amount, 0), Double002))

\* int(amount * 0.02) for the amounts the callers of the ledger use, computed
\* once.
CashbackOfAmounts ==
    [amount \in Amounts |-> ValueOf(CashbackDigits(DigitsOf(amount)))]

CashbackAmount(amount) == CashbackOfAmounts[amount]

(***************************************************************************)
(* _process_cashbacks                                                      *)
(***************************************************************************)
\* Seeded fault: a cashback matures only after its due timestamp.
IsDueCashbackStrict(transaction, timestamp) ==
    /\ transaction.operation = "cashback"
    /\ transaction.timestamp < timestamp
    /\ transaction.deposited = FALSE

IsDueCashback(transaction, timestamp) ==
    /\ transaction.operation = "cashback"
    /\ transaction.timestamp <= timestamp
    /\ transaction.deposited = FALSE

RECURSIVE DueTotal(_, _)
DueTotal(transactions, timestamp) ==
    IF transactions = << >> THEN 0
    ELSE (IF IsDueCashback(Head(transactions), timestamp)
          THEN Head(transactions).amount ELSE 0)
         + DueTotal(Tail(transactions), timestamp)

\* Seeded fault: the sweep credits the balance and leaves the flag unset.
MarkDepositedNever(transactions, timestamp) == transactions

MarkDeposited(transactions, timestamp) ==
    [i \in 1..Len(transactions) |->
        IF IsDueCashback(transactions[i], timestamp)
        THEN [transactions[i] EXCEPT !.deposited = TRUE]
        ELSE transactions[i]]

SweepAccount(account_info, timestamp) ==
    [account_info EXCEPT
        !.balance = @ + DueTotal(account_info.transactions, timestamp),
        !.transactions = MarkDeposited(@, timestamp)]

process_cashbacks(wa, timestamp) ==
    [id \in DOMAIN wa |-> SweepAccount(wa[id], timestamp)]

(***************************************************************************)
(* create_account: the only public operation that does not sweep.          *)
(***************************************************************************)
NewAccount(timestamp) ==
    [balance |-> 0, transactions |-> << >>, creation_time |-> timestamp]

\* Seeded fault: re-creating a merged id re-opens the old record instead of
\* replacing it.
create_account_reopening(timestamp, account_id) ==
    /\ timestamp >= now
    /\ now' = timestamp
    /\ call' = "create_account"
    /\ payment_counter' = payment_counter
    /\ IF IsActive(whole_accounts, account_id)
       THEN /\ whole_accounts' = whole_accounts
            /\ ret' = RetBool(FALSE)
       ELSE /\ whole_accounts' =
                 IF account_id \in DOMAIN whole_accounts
                 THEN [whole_accounts EXCEPT ![account_id] =
                         [k \in DOMAIN @ \ {"merged_at"} |-> @[k]]]
                 ELSE (account_id :> NewAccount(timestamp)) @@ whole_accounts
            /\ ret' = RetBool(TRUE)

create_account(timestamp, account_id) ==
    /\ timestamp >= now
    /\ now' = timestamp
    /\ call' = "create_account"
    /\ payment_counter' = payment_counter
    /\ IF IsActive(whole_accounts, account_id)
       THEN /\ whole_accounts' = whole_accounts
            /\ ret' = RetBool(FALSE)
       ELSE /\ whole_accounts' =
                   (account_id :> NewAccount(timestamp)) @@ whole_accounts
            /\ ret' = RetBool(TRUE)

(***************************************************************************)
(* deposit                                                                 *)
(***************************************************************************)
DepositTxn(timestamp, amount) ==
    [timestamp |-> timestamp, operation |-> "deposit", amount |-> amount]

deposit(timestamp, account_id, amount) ==
    LET swept == process_cashbacks(whole_accounts, timestamp) IN
    /\ timestamp >= now
    /\ now' = timestamp
    /\ call' = "deposit"
    /\ payment_counter' = payment_counter
    /\ IF ~IsActive(swept, account_id)
       THEN /\ whole_accounts' = swept
            /\ ret' = RetNone
       ELSE /\ Entries(swept[account_id].transactions) < MaxEntries
            /\ whole_accounts' =
                 [swept EXCEPT
                    ![account_id].balance = @ + amount,
                    ![account_id].transactions =
                        Append(@, DepositTxn(timestamp, amount))]
            /\ ret' = RetInt(swept[account_id].balance + amount)

(***************************************************************************)
(* transfer                                                                *)
(***************************************************************************)
TransferOutTxn(timestamp, amount, target_account_id) ==
    [timestamp |-> timestamp, operation |-> "transfer_out", amount |-> amount,
     target |-> target_account_id]

TransferInTxn(timestamp, amount, source_account_id) ==
    [timestamp |-> timestamp, operation |-> "transfer_in", amount |-> amount,
     source |-> source_account_id]

\* Seeded fault: the transfer does not compare the balance with the amount.
TransferFailsUnchecked(wa, source_account_id, target_account_id, amount) ==
    \/ source_account_id \notin DOMAIN wa
    \/ target_account_id \notin DOMAIN wa
    \/ source_account_id = target_account_id
    \/ IsMerged(wa[source_account_id])
    \/ IsMerged(wa[target_account_id])

TransferFails(wa, source_account_id, target_account_id, amount) ==
    \/ source_account_id \notin DOMAIN wa
    \/ target_account_id \notin DOMAIN wa
    \/ source_account_id = target_account_id
    \/ IsMerged(wa[source_account_id])
    \/ IsMerged(wa[target_account_id])
    \/ wa[source_account_id].balance < amount

transfer(timestamp, source_account_id, target_account_id, amount) ==
    LET swept == process_cashbacks(whole_accounts, timestamp) IN
    /\ timestamp >= now
    /\ now' = timestamp
    /\ call' = "transfer"
    /\ payment_counter' = payment_counter
    /\ IF TransferFails(swept, source_account_id, target_account_id, amount)
       THEN /\ whole_accounts' = swept
            /\ ret' = RetNone
       ELSE /\ Entries(swept[source_account_id].transactions) < MaxEntries
            /\ Entries(swept[target_account_id].transactions) < MaxEntries
            /\ whole_accounts' =
                 [swept EXCEPT
                    ![source_account_id].balance = @ - amount,
                    ![target_account_id].balance = @ + amount,
                    ![source_account_id].transactions =
                        Append(@, TransferOutTxn(timestamp, amount,
                                                 target_account_id)),
                    ![target_account_id].transactions =
                        Append(@, TransferInTxn(timestamp, amount,
                                                source_account_id))]
            /\ ret' = RetInt(swept[source_account_id].balance - amount)

(***************************************************************************)
(* top_spenders                                                            *)
(***************************************************************************)
IsOutgoing(transac) ==
    \/ transac.operation = "transfer_out"
    \/ StartsWith(transac.operation, "payment")

RECURSIVE TotalOutgoing(_)
TotalOutgoing(transactions) ==
    IF transactions = << >> THEN 0
    ELSE (IF IsOutgoing(Head(transactions))
          THEN Head(transactions).amount ELSE 0)
         + TotalOutgoing(Tail(transactions))

\* Python's order on the account ids used: their position in AccountIds.
IdRank(id) == CHOOSE i \in 1..Len(AccountIds) : AccountIds[i] = id

\* Seeded fault: the smallest total comes first.
SpenderLessAscendingTotal(p, q) ==
    \/ p[1] > q[1]
    \/ p[1] = q[1] /\ IdRank(p[2]) < IdRank(q[2])

\* Tuple order on (-total_outgoing, acc_id).
SpenderLess(p, q) ==
    \/ p[1] < q[1]
    \/ p[1] = q[1] /\ IdRank(p[2]) < IdRank(q[2])

\* spenders: one (-total_outgoing, acc_id) per account that is not merged.
Spenders(wa) ==
    {<<0 - TotalOutgoing(wa[id].transactions), id>> :
        id \in {x \in DOMAIN wa : ~IsMerged(wa[x])}}

\* spenders.sort()
RECURSIVE SortSpenders(_)
SortSpenders(spenders) ==
    IF spenders = {} THEN << >>
    ELSE LET first == CHOOSE p \in spenders :
                         \A q \in spenders \ {p} : SpenderLess(p, q)
         IN <<first>> \o SortSpenders(spenders \ {first})

Min(x, y) == IF x < y THEN x ELSE y

\* f"{acc}({amt})"
FormatSpender(acc, amt) == acc \o "(" \o ToString(amt) \o ")"

TopSpenders(wa, n) ==
    LET sorted == SortSpenders(Spenders(wa)) IN
    [i \in 1..Min(n, Len(sorted)) |->
        FormatSpender(sorted[i][2], 0 - sorted[i][1])]

top_spenders(timestamp, n) ==
    LET swept == process_cashbacks(whole_accounts, timestamp) IN
    /\ timestamp >= now
    /\ now' = timestamp
    /\ call' = "top_spenders"
    /\ payment_counter' = payment_counter
    /\ whole_accounts' = swept
    /\ ret' = RetList(TopSpenders(swept, n))

(***************************************************************************)
(* pay                                                                     *)
(***************************************************************************)
PaymentTxn(timestamp, payment_id, amount) ==
    [timestamp |-> timestamp, operation |-> payment_id, amount |-> amount]

CashbackTxn(timestamp, payment_id, amount) ==
    [timestamp |-> timestamp + MILLISECONDS_IN_1_DAY,
     operation |-> "cashback",
     amount |-> CashbackAmount(amount),
     related_payment |-> payment_id,
     deposited |-> FALSE]

\* Seeded fault: pay does not compare the balance with the amount.
PayFailsUncheckedBalance(wa, account_id, amount) ==
    \/ account_id \notin DOMAIN wa
    \/ IsMerged(wa[account_id])

PayFails(wa, account_id, amount) ==
    \/ account_id \notin DOMAIN wa
    \/ IsMerged(wa[account_id])
    \/ wa[account_id].balance < amount

\* Seeded fault: the payment identifier is allocated before the balance is
\* checked, so a payment refused for insufficient funds consumes it.
pay_allocating_first(timestamp, account_id, amount) ==
    LET swept == process_cashbacks(whole_accounts, timestamp)
        payment_id == PaymentId(payment_counter)
    IN
    /\ timestamp >= now
    /\ now' = timestamp
    /\ call' = "pay"
    /\ IF ~IsActive(swept, account_id)
       THEN /\ whole_accounts' = swept
            /\ payment_counter' = payment_counter
            /\ ret' = RetNone
       ELSE /\ payment_counter <= MaxPayments
            /\ payment_counter' = payment_counter + 1
            /\ IF swept[account_id].balance < amount
               THEN /\ whole_accounts' = swept
                    /\ ret' = RetNone
               ELSE /\ Entries(swept[account_id].transactions) < MaxEntries
                    /\ whole_accounts' =
                         [swept EXCEPT
                            ![account_id].balance = @ - amount,
                            ![account_id].transactions =
                                @ \o <<PaymentTxn(timestamp, payment_id,
                                                  amount),
                                       CashbackTxn(timestamp, payment_id,
                                                   amount)>>]
                    /\ ret' = RetStr(payment_id)

\* Seeded fault: a successful payment does not advance the counter.
pay_keeping_counter(timestamp, account_id, amount) ==
    LET swept == process_cashbacks(whole_accounts, timestamp)
        payment_id == PaymentId(payment_counter)
    IN
    /\ timestamp >= now
    /\ now' = timestamp
    /\ call' = "pay"
    /\ payment_counter' = payment_counter
    /\ IF PayFails(swept, account_id, amount)
       THEN /\ whole_accounts' = swept
            /\ ret' = RetNone
       ELSE /\ Entries(swept[account_id].transactions) < MaxEntries
            /\ payment_counter <= MaxPayments
            /\ whole_accounts' =
                 [swept EXCEPT
                    ![account_id].balance = @ - amount,
                    ![account_id].transactions =
                        @ \o <<PaymentTxn(timestamp, payment_id, amount),
                               CashbackTxn(timestamp, payment_id, amount)>>]
            /\ ret' = RetStr(payment_id)

pay(timestamp, account_id, amount) ==
    LET swept == process_cashbacks(whole_accounts, timestamp)
        payment_id == PaymentId(payment_counter)
    IN
    /\ timestamp >= now
    /\ now' = timestamp
    /\ call' = "pay"
    /\ IF PayFails(swept, account_id, amount)
       THEN /\ whole_accounts' = swept
            /\ payment_counter' = payment_counter
            /\ ret' = RetNone
       ELSE /\ Entries(swept[account_id].transactions) < MaxEntries
            /\ payment_counter <= MaxPayments
            /\ payment_counter' = payment_counter + 1
            /\ whole_accounts' =
                 [swept EXCEPT
                    ![account_id].balance = @ - amount,
                    ![account_id].transactions =
                        @ \o <<PaymentTxn(timestamp, payment_id, amount),
                               CashbackTxn(timestamp, payment_id, amount)>>]
            /\ ret' = RetStr(payment_id)

(***************************************************************************)
(* get_payment_status                                                      *)
(***************************************************************************)
PaymentFound(transactions, payment) ==
    \E i \in 1..Len(transactions) : transactions[i].operation = payment

\* transac.get("related_payment") == payment: read only on a cashback, which
\* always carries the key.
CashbackDeposited(transactions, payment) ==
    \E i \in 1..Len(transactions) :
        /\ transactions[i].operation = "cashback"
        /\ transactions[i].related_payment = payment
        /\ transactions[i].deposited

PaymentStatus(wa, account_id, payment) ==
    IF account_id \notin DOMAIN wa THEN RetNone
    ELSE IF IsMerged(wa[account_id]) THEN RetNone
    ELSE IF ~PaymentFound(wa[account_id].transactions, payment) THEN RetNone
    ELSE IF CashbackDeposited(wa[account_id].transactions, payment)
         THEN RetStr("CASHBACK_RECEIVED")
         ELSE RetStr("IN_PROGRESS")

get_payment_status(timestamp, account_id, payment) ==
    LET swept == process_cashbacks(whole_accounts, timestamp) IN
    /\ timestamp >= now
    /\ now' = timestamp
    /\ call' = "get_payment_status"
    /\ payment_counter' = payment_counter
    /\ whole_accounts' = swept
    /\ ret' = PaymentStatus(swept, account_id, payment)

(***************************************************************************)
(* merge_accounts                                                          *)
(***************************************************************************)
\* Seeded fault: the merge does not check that account_id_2 is still active.
MergeFailsUncheckedSecond(wa, account_id_1, account_id_2) ==
    \/ account_id_1 = account_id_2
    \/ account_id_1 \notin DOMAIN wa
    \/ account_id_2 \notin DOMAIN wa
    \/ IsMerged(wa[account_id_1])

MergeFails(wa, account_id_1, account_id_2) ==
    \/ account_id_1 = account_id_2
    \/ account_id_1 \notin DOMAIN wa
    \/ account_id_2 \notin DOMAIN wa
    \/ IsMerged(wa[account_id_1])
    \/ IsMerged(wa[account_id_2])

\* Seeded fault: the copies carry their provenance and not the merge time.
TagMergedWithoutTime(transac, account_id_2, timestamp) ==
    ("merged_from" :> account_id_2) @@ transac

\* transac.copy() with "merged_from" and "merged_at" set (overwritten when the
\* transaction was itself copied in by an earlier merge).
TagMerged(transac, account_id_2, timestamp) ==
    ("merged_from" :> account_id_2) @@ ("merged_at" :> timestamp) @@ transac

\* Seeded fault: a cashback is copied as already deposited, so the absorbing
\* account is never credited with one that was pending.
CopyTransactionsAsDeposited(transactions, account_id_2, timestamp) ==
    [i \in 1..Len(transactions) |->
        IF transactions[i].operation = "cashback"
        THEN [TagMerged(transactions[i], account_id_2, timestamp)
                 EXCEPT !.deposited = TRUE]
        ELSE TagMerged(transactions[i], account_id_2, timestamp)]

CopyTransactions(transactions, account_id_2, timestamp) ==
    [i \in 1..Len(transactions) |->
        TagMerged(transactions[i], account_id_2, timestamp)]

\* Seeded fault: the merge copies the transactions and leaves the absorbed
\* account's balance behind.
MergeIntoWithoutBalance(wa, timestamp, account_id_1, account_id_2) ==
    [id \in DOMAIN wa |->
        IF id = account_id_1
        THEN [wa[id] EXCEPT
                !.transactions =
                    @ \o CopyTransactions(wa[account_id_2].transactions,
                                          account_id_2, timestamp)]
        ELSE IF id = account_id_2
        THEN ("merged_at" :> timestamp) @@ wa[id]
        ELSE wa[id]]

MergeInto(wa, timestamp, account_id_1, account_id_2) ==
    [id \in DOMAIN wa |->
        IF id = account_id_1
        THEN [wa[id] EXCEPT
                !.balance = @ + wa[account_id_2].balance,
                !.transactions =
                    @ \o CopyTransactions(wa[account_id_2].transactions,
                                          account_id_2, timestamp)]
        ELSE IF id = account_id_2
        THEN ("merged_at" :> timestamp) @@ wa[id]
        ELSE wa[id]]

merge_accounts(timestamp, account_id_1, account_id_2) ==
    LET swept == process_cashbacks(whole_accounts, timestamp) IN
    /\ timestamp >= now
    /\ now' = timestamp
    /\ call' = "merge_accounts"
    /\ payment_counter' = payment_counter
    /\ IF MergeFails(swept, account_id_1, account_id_2)
       THEN /\ whole_accounts' = swept
            /\ ret' = RetBool(FALSE)
       ELSE /\ Entries(swept[account_id_1].transactions)
                 + Entries(swept[account_id_2].transactions) <= MaxEntries
            /\ whole_accounts' =
                 MergeInto(swept, timestamp, account_id_1, account_id_2)
            /\ ret' = RetBool(TRUE)

(***************************************************************************)
(* get_balance                                                             *)
(***************************************************************************)
\* Seeded fault: the replay ignores the merge time of copied transactions.
CountsIgnoringMerge(transac, time_at) == ~(transac.timestamp > time_at)

\* The replay loop's two "continue" tests.
Counts(transac, time_at) ==
    /\ ~(transac.timestamp > time_at)
    /\ ~("merged_at" \in DOMAIN transac /\ transac.merged_at > time_at)

\* The signed effect of one transaction on the replayed balance.
Effect(transac) ==
    IF transac.operation = "deposit" THEN transac.amount
    ELSE IF transac.operation = "transfer_in" THEN transac.amount
    ELSE IF transac.operation = "transfer_out" THEN 0 - transac.amount
    ELSE IF StartsWith(transac.operation, "payment") THEN 0 - transac.amount
    ELSE IF transac.operation = "cashback" THEN transac.amount
    ELSE 0

RECURSIVE Replay(_, _)
Replay(transactions, time_at) ==
    IF transactions = << >> THEN 0
    ELSE (IF Counts(Head(transactions), time_at)
          THEN Effect(Head(transactions)) ELSE 0)
         + Replay(Tail(transactions), time_at)

\* Seeded fault: a merged account still answers at its merge time.
BalanceAtMergeTime(wa, account_id, time_at) ==
    IF account_id \notin DOMAIN wa THEN RetNone
    ELSE IF wa[account_id].creation_time > time_at THEN RetNone
    ELSE IF IsMerged(wa[account_id]) /\ time_at > wa[account_id].merged_at
         THEN RetNone
    ELSE RetInt(Replay(wa[account_id].transactions, time_at))

Balance(wa, account_id, time_at) ==
    IF account_id \notin DOMAIN wa THEN RetNone
    ELSE IF wa[account_id].creation_time > time_at THEN RetNone
    ELSE IF IsMerged(wa[account_id]) /\ time_at >= wa[account_id].merged_at
         THEN RetNone
    ELSE RetInt(Replay(wa[account_id].transactions, time_at))

get_balance(timestamp, account_id, time_at) ==
    LET swept == process_cashbacks(whole_accounts, timestamp) IN
    /\ timestamp >= now
    /\ now' = timestamp
    /\ call' = "get_balance"
    /\ payment_counter' = payment_counter
    /\ whole_accounts' = swept
    /\ ret' = Balance(swept, account_id, time_at)

(***************************************************************************)
(* The Level 1-2 draft of src/Shivani: create_account, deposit, transfer   *)
(* and top_spenders on two dicts.  Its methods carry the names of the      *)
(* final implementation's; here they are prefixed with draft_.  Timestamps *)
(* are accepted and not used.                                              *)
(***************************************************************************)
draft_create_account(timestamp, account_id) ==
    IF account_id \in DOMAIN _balances
    THEN /\ draft_ret' = RetBool(FALSE)
         /\ UNCHANGED <<_balances, _outgoing_total>>
    ELSE /\ _balances' = (account_id :> 0) @@ _balances
         /\ _outgoing_total' = (account_id :> 0) @@ _outgoing_total
         /\ draft_ret' = RetBool(TRUE)

draft_deposit(timestamp, account_id, amount) ==
    IF account_id \notin DOMAIN _balances
    THEN /\ draft_ret' = RetNone
         /\ UNCHANGED <<_balances, _outgoing_total>>
    ELSE /\ _balances' =
              [_balances EXCEPT ![account_id] = @ + amount]
         /\ _outgoing_total' = _outgoing_total
         /\ draft_ret' = RetInt(_balances[account_id] + amount)

DraftTransferFails(source_account_id, target_account_id, amount) ==
    \/ source_account_id \notin DOMAIN _balances
    \/ target_account_id \notin DOMAIN _balances
    \/ source_account_id = target_account_id
    \/ _balances[source_account_id] < amount

draft_transfer(timestamp, source_account_id, target_account_id, amount) ==
    IF DraftTransferFails(source_account_id, target_account_id, amount)
    THEN /\ draft_ret' = RetNone
         /\ UNCHANGED <<_balances, _outgoing_total>>
    ELSE /\ _balances' =
              [_balances EXCEPT ![source_account_id] = @ - amount,
                                ![target_account_id] = @ + amount]
         /\ _outgoing_total' =
              [_outgoing_total EXCEPT ![source_account_id] = @ + amount]
         /\ draft_ret' = RetInt(_balances[source_account_id] - amount)

\* top_accounts: one (acc_id, total_outgoing) per key of _balances, with
\* _outgoing_total.get(acc_id, 0).
DraftTopAccounts ==
    {<<acc_id, IF acc_id \in DOMAIN _outgoing_total
               THEN _outgoing_total[acc_id] ELSE 0>> :
        acc_id \in DOMAIN _balances}

\* Seeded fault: the draft sorts by account id alone.
DraftKeyLessByIdOnly(p, q) == IdRank(p[1]) < IdRank(q[1])

\* Order of the sort key (-item[1], item[0]).
DraftKeyLess(p, q) ==
    \/ 0 - p[2] < 0 - q[2]
    \/ 0 - p[2] = 0 - q[2] /\ IdRank(p[1]) < IdRank(q[1])

\* top_accounts.sort(key=...)
RECURSIVE DraftSort(_)
DraftSort(top_accounts) ==
    IF top_accounts = {} THEN << >>
    ELSE LET first == CHOOSE p \in top_accounts :
                         \A q \in top_accounts \ {p} : DraftKeyLess(p, q)
         IN <<first>> \o DraftSort(top_accounts \ {first})

\* top_accounts[:n] for n >= 0, rendered f"{acc_id}({total})".
DraftTopSpenders(n) ==
    LET sorted == DraftSort(DraftTopAccounts) IN
    [i \in 1..Min(n, Len(sorted)) |->
        sorted[i][1] \o "(" \o ToString(sorted[i][2]) \o ")"]

draft_top_spenders(timestamp, n) ==
    /\ draft_ret' = RetList(DraftTopSpenders(n))
    /\ UNCHANGED <<_balances, _outgoing_total>>

(***************************************************************************)
(* The ledger: __init__ and the calls of a single caller whose timestamps  *)
(* never decrease.                                                         *)
(***************************************************************************)
\* __init__ of the final implementation.
InitFinal ==
    /\ whole_accounts = << >>
    /\ payment_counter = 1
    /\ now = 0
    /\ call = "__init__"
    /\ ret = RetNone

\* No pay call is being looked at on its own.
InitNumbers ==
    /\ pay_amount = << >>
    /\ cashback_amount = << >>

\* __init__ of the draft.
InitDraft ==
    /\ _balances = << >>
    /\ _outgoing_total = << >>
    /\ draft_ret = RetNone

Init == InitFinal /\ InitNumbers /\ InitDraft

Next ==
    \/ \E t \in Times, id \in Ids :
          create_account(t, id) /\ UNCHANGED <<numbers, draft>>
    \/ \E t \in Times, id \in Ids, a \in Amounts :
          deposit(t, id, a) /\ UNCHANGED <<numbers, draft>>
    \/ \E t \in Times, id1 \in Ids, id2 \in Ids, a \in Amounts :
          transfer(t, id1, id2, a) /\ UNCHANGED <<numbers, draft>>
    \/ \E t \in QueryTimes, n \in Ns :
          top_spenders(t, n) /\ UNCHANGED <<numbers, draft>>
    \/ \E t \in Times, id \in Ids, a \in Amounts :
          pay(t, id, a) /\ UNCHANGED <<numbers, draft>>
    \/ \E t \in QueryTimes, id \in Ids, payment \in PaymentArgs :
          get_payment_status(t, id, payment) /\ UNCHANGED <<numbers, draft>>
    \/ \E t \in Times, id1 \in Ids, id2 \in Ids :
          merge_accounts(t, id1, id2) /\ UNCHANGED <<numbers, draft>>
    \/ \E t \in QueryTimes, id \in Ids, time_at \in TimesAt :
          get_balance(t, id, time_at) /\ UNCHANGED <<numbers, draft>>

Spec == Init /\ [][Next]_vars

(***************************************************************************)
(* The same ledger called with three account ids, so that a transfer has   *)
(* a bystander account; restricted to the operations that move money.      *)
(***************************************************************************)
ThreeIds == {"a", "b", "c"}

NextThree ==
    \/ \E t \in Times, id \in ThreeIds :
          create_account(t, id) /\ UNCHANGED <<numbers, draft>>
    \/ \E t \in Times, id \in ThreeIds, a \in Amounts :
          deposit(t, id, a) /\ UNCHANGED <<numbers, draft>>
    \/ \E t \in Times, id1 \in ThreeIds, id2 \in ThreeIds, a \in Amounts :
          transfer(t, id1, id2, a) /\ UNCHANGED <<numbers, draft>>
    \/ \E t \in Times, id \in ThreeIds, a \in Amounts :
          pay(t, id, a) /\ UNCHANGED <<numbers, draft>>

SpecThree == Init /\ [][NextThree]_vars

(***************************************************************************)
(* The cashback computation of pay on its own, for amounts of any size:    *)
(* pay_cashback_amount is line 239, cashback_amount = int(amount * 0.02).  *)
(***************************************************************************)
MaxOffset == 63

\* 2^53, the first integer whose successor is not a double.
TwoTo53 == Shifted(<<1>>, 0 - 53)

\* The amounts paid: small ones, and ones just above 2^53.
PayAmounts ==
    {DigitsOf(k) : k \in 0..MaxOffset}
    \cup {AddDigits(TwoTo53, DigitsOf(k), 0) : k \in 0..MaxOffset}

InitCashback ==
    /\ InitFinal
    /\ InitDraft
    /\ pay_amount \in PayAmounts
    /\ cashback_amount = << >>

pay_cashback_amount ==
    /\ call = "__init__"
    /\ call' = "pay"
    /\ cashback_amount' = CashbackDigits(pay_amount)
    /\ UNCHANGED <<whole_accounts, payment_counter, now, ret, pay_amount,
                   draft>>

NextCashback == pay_cashback_amount

SpecCashback == InitCashback /\ [][NextCashback]_vars

(***************************************************************************)
(* The draft and the final implementation side by side: each call of their *)
(* common operations is made on both with the same arguments.              *)
(***************************************************************************)
NextBoth ==
    \/ \E t \in Times, id \in Ids :
          /\ create_account(t, id)
          /\ draft_create_account(t, id)
          /\ UNCHANGED numbers
    \/ \E t \in Times, id \in Ids, a \in Amounts :
          /\ deposit(t, id, a)
          /\ draft_deposit(t, id, a)
          /\ UNCHANGED numbers
    \/ \E t \in Times, id1 \in Ids, id2 \in Ids, a \in Amounts :
          /\ transfer(t, id1, id2, a)
          /\ draft_transfer(t, id1, id2, a)
          /\ UNCHANGED numbers
    \/ \E t \in QueryTimes, n \in Ns :
          /\ top_spenders(t, n)
          /\ draft_top_spenders(t, n)
          /\ UNCHANGED numbers

SpecBoth == Init /\ [][NextBoth]_vars

(***************************************************************************)
(* Vocabulary of the properties.                                           *)
(***************************************************************************)
\* The latest call was a mutating operation and it succeeded.
SucceededMutation ==
    \/ call = "create_account" /\ ret = RetBool(TRUE)
    \/ call = "deposit" /\ ret.kind = "int"
    \/ call = "transfer" /\ ret.kind = "int"
    \/ call = "pay" /\ ret.kind = "str"
    \/ call = "merge_accounts" /\ ret = RetBool(TRUE)

\* The latest call runs the sweep before its own logic.
SweepingCall ==
    call \in {"deposit", "transfer", "top_spenders", "pay",
              "get_payment_status", "merge_accounts", "get_balance"}

ActiveIds == {id \in DOMAIN whole_accounts : ~IsMerged(whole_accounts[id])}

MergedIds == {id \in DOMAIN whole_accounts : IsMerged(whole_accounts[id])}

\* Some cashback of the log is due at the timestamp and not yet deposited.
HasDueCashback(transactions, timestamp) ==
    \E i \in 1..Len(transactions) :
        /\ transactions[i].operation = "cashback"
        /\ transactions[i].timestamp <= timestamp
        /\ ~transactions[i].deposited

\* C1: immediately after every successful mutating operation with timestamp
\* t (create_account, deposit, transfer, pay, merge_accounts), the live
\* balance of every active account equals the replay of its log at
\* time_at = t.
C1_LiveBalanceIsReplay ==
    SucceededMutation =>
        \A id \in ActiveIds :
            whole_accounts[id].balance =
                Replay(whole_accounts[id].transactions, now)

\* The same statement for the mutating operations that sweep; it holds, so
\* C1 fails through create_account alone.
C1_AfterSweepingMutation ==
    (SucceededMutation /\ SweepingCall) =>
        \A id \in ActiveIds :
            whole_accounts[id].balance =
                Replay(whole_accounts[id].transactions, now)

\* The signed amounts of the transactions dated at or before time_at, whatever
\* their provenance.
RECURSIVE EffectUpTo(_, _)
EffectUpTo(transactions, time_at) ==
    IF transactions = << >> THEN 0
    ELSE (IF Head(transactions).timestamp <= time_at
          THEN Effect(Head(transactions)) ELSE 0)
         + EffectUpTo(Tail(transactions), time_at)

C3_BalanceNotFoundCases ==
    \A t \in QueryTimes :
        t >= now =>
            LET swept == process_cashbacks(whole_accounts, t) IN
            \A id \in Ids, time_at \in TimesAt :
                LET result == Balance(swept, id, time_at)
                    notFound ==
                      \/ id \notin DOMAIN whole_accounts
                      \/ time_at < whole_accounts[id].creation_time
                      \/ /\ "merged_at" \in DOMAIN whole_accounts[id]
                         /\ time_at >= whole_accounts[id].merged_at
                IN IF notFound THEN result = RetNone ELSE result.kind = "int"

\* get_balance has just returned an integer that only a merged account, asked
\* about a time before its merge, can have returned.
C3_Witness ==
    /\ call = "get_balance"
    /\ ret = RetInt(100)
    /\ \E b \in MergedIds :
          /\ whole_accounts[b].creation_time < whole_accounts[b].merged_at
          /\ \A x \in DOMAIN whole_accounts \ {b}, time_at \in TimesAt :
                Balance(whole_accounts, x, time_at) # RetInt(100)

\* The replayed effect of everything in a log but its cashbacks.
RECURSIVE BaseSum(_)
BaseSum(transactions) ==
    IF transactions = << >> THEN 0
    ELSE (IF Head(transactions).operation = "cashback" THEN 0
          ELSE Effect(Head(transactions)))
         + BaseSum(Tail(transactions))

\* The amounts of the cashbacks of a log that are marked deposited.
RECURSIVE DepositedSum(_)
DepositedSum(transactions) ==
    IF transactions = << >> THEN 0
    ELSE (IF /\ Head(transactions).operation = "cashback"
             /\ Head(transactions).deposited
          THEN Head(transactions).amount ELSE 0)
         + DepositedSum(Tail(transactions))

\* The payments an account made itself: positions in its log of payment
\* transactions that were not copied in by a merge.
OwnPayments(transactions) ==
    {i \in 1..Len(transactions) :
        /\ StartsWith(transactions[i].operation, "payment")
        /\ "merged_at" \notin DOMAIN transactions[i]}

\* C4: for a payment p made at t0 by an account that is still active,
\* get_payment_status(t, id, p) returns "IN_PROGRESS" for t0 <= t < t0 + one
\* day and "CASHBACK_RECEIVED" for t >= t0 + one day; and once a sweeping
\* operation with timestamp >= t0 + one day has run, the live balance holds
\* exactly floor(amount * 2 / 100) more for that payment than without the
\* cashback.
C4_PaymentStatusAndCashback ==
    /\ \A t \in QueryTimes :
          t >= now =>
             LET swept == process_cashbacks(whole_accounts, t) IN
             \A id \in ActiveIds :
                LET log == whole_accounts[id].transactions IN
                \A i \in OwnPayments(log) :
                   PaymentStatus(swept, id, log[i].operation)
                   = RetStr(IF t >= log[i].timestamp + 86400000
                            THEN "CASHBACK_RECEIVED" ELSE "IN_PROGRESS")
    /\ \A id \in ActiveIds :
          LET log == whole_accounts[id].transactions IN
          /\ \A i \in OwnPayments(log) :
                \E j \in 1..Len(log) :
                   /\ log[j].operation = "cashback"
                   /\ log[j].related_payment = log[i].operation
                   /\ log[j].amount = (log[i].amount * 2) \div 100
                   /\ (SweepingCall /\ now >= log[i].timestamp + 86400000)
                         => log[j].deposited
                   /\ now < log[i].timestamp + 86400000 => ~log[j].deposited
          /\ whole_accounts[id].balance = BaseSum(log) + DepositedSum(log)

\* A payment's cashback has just been found deposited by get_payment_status.
C4_Witness ==
    /\ call = "get_payment_status"
    /\ ret = RetStr("CASHBACK_RECEIVED")
    /\ \E id \in ActiveIds :
          LET log == whole_accounts[id].transactions IN
          /\ OwnPayments(log) # {}
          /\ whole_accounts[id].balance = BaseSum(log) + 2

\* C5: every public operation called with timestamp t runs the sweep before
\* its own logic: when it returns, no cashback on any account has
\* timestamp <= t and deposited = False.
C5_NoDueCashbackAfterAnyCall ==
    call # "__init__" =>
        \A id \in DOMAIN whole_accounts :
            ~HasDueCashback(whole_accounts[id].transactions, now)

\* The same statement for the seven operations that do sweep; it holds.
C5_NoDueCashbackAfterSweepingCall ==
    SweepingCall =>
        \A id \in DOMAIN whole_accounts :
            ~HasDueCashback(whole_accounts[id].transactions, now)

\* Running the sweep a second time at the same timestamp (any the next call
\* can carry) changes nothing.
SweepIdempotent(wa) ==
    \A t \in QueryTimes :
        t >= now =>
            LET once == process_cashbacks(wa, t) IN
            process_cashbacks(once, t) = once

\* The amounts of the cashbacks that are undeposited in the first log and
\* deposited at the same position of the second.
RECURSIVE FlippedSum(_, _, _)
FlippedSum(before, after, i) ==
    IF i = 0 THEN 0
    ELSE (IF /\ before[i].operation = "cashback"
             /\ ~before[i].deposited
             /\ after[i].deposited
          THEN before[i].amount ELSE 0)
         + FlippedSum(before, after, i - 1)

\* The account record of id is the same Python object in both states: it was
\* not replaced by create_account.
SameRecord(id) ==
    /\ id \in DOMAIN whole_accounts
    /\ id \in DOMAIN whole_accounts'
    /\ ~(call' = "create_account" /\ whole_accounts'[id] # whole_accounts[id])

\* The step ran the sweep and nothing else on the accounts.
SweepOnlyStep ==
    \/ call' \in {"top_spenders", "get_payment_status", "get_balance"}
    \/ call' \in {"deposit", "transfer", "pay"} /\ ret' = RetNone
    \/ call' = "merge_accounts" /\ ret' = RetBool(FALSE)

\* C6: the sweep is idempotent and monotonic: running _process_cashbacks(t)
\* twice in a row yields the same state as running it once; a cashback's
\* deposited flag only ever changes from False to True, and its amount is
\* added to the owning account's balance exactly once, at that flip.
C6_SweepIdempotentMonotonic ==
    /\ [](/\ SweepIdempotent(whole_accounts)
          /\ \A id \in DOMAIN whole_accounts :
                whole_accounts[id].balance =
                    BaseSum(whole_accounts[id].transactions)
                    + DepositedSum(whole_accounts[id].transactions))
    /\ [][\A id \in Ids :
             (SameRecord(id) /\ whole_accounts'[id] # whole_accounts[id]) =>
                LET before == whole_accounts[id].transactions
                    after == whole_accounts'[id].transactions
                IN /\ Len(after) >= Len(before)
                   /\ \A i \in 1..Len(before) :
                         before[i].operation = "cashback" =>
                            /\ after[i].operation = "cashback"
                            /\ after[i].amount = before[i].amount
                            /\ before[i].deposited => after[i].deposited
                   /\ SweepOnlyStep =>
                         whole_accounts'[id].balance =
                            whole_accounts[id].balance
                            + FlippedSum(before, after, Len(before))]_vars

\* A sweep has just matured a cashback: the flag is set and the balance holds
\* the amount.
C6_Witness ==
    /\ SweepingCall
    /\ \E id \in ActiveIds :
          LET log == whole_accounts[id].transactions IN
          /\ DepositedSum(log) = 2
          /\ whole_accounts[id].balance = BaseSum(log) + 2

\* No entry of a top_spenders result names the account.
NotListed(result, id) ==
    \A i \in 1..Len(result) : ~StartsWith(result[i], id \o "(")

\* C7: merge_accounts(t, a, b) returns True if and only if a # b and both
\* ids denote existing, non-merged accounts.  After a successful merge, and
\* until b is re-created by create_account, every deposit, pay and
\* get_payment_status on b returns None, every transfer with b as source or
\* target returns None, every merge_accounts with b in either position
\* returns False, and top_spenders never lists b.
C7_MergeResultAndMergedRejected ==
    /\ [](\A b \in MergedIds, t \in QueryTimes :
             t >= now =>
                LET swept == process_cashbacks(whole_accounts, t) IN
                /\ \A payment \in PaymentArgs :
                      PaymentStatus(swept, b, payment) = RetNone
                /\ \A n \in Ns : NotListed(TopSpenders(swept, n), b))
    /\ [][/\ call' = "merge_accounts" =>
                \A t \in Times, a \in Ids, b \in Ids :
                   merge_accounts(t, a, b) =>
                      /\ ret' = RetBool(/\ a # b
                                        /\ IsActive(whole_accounts, a)
                                        /\ IsActive(whole_accounts, b))
                      /\ (a \in MergedIds \/ b \in MergedIds)
                            => ret' = RetBool(FALSE)
          /\ call' = "deposit" =>
                \A t \in Times, b \in MergedIds, amount \in Amounts :
                   deposit(t, b, amount) => ret' = RetNone
          /\ call' = "pay" =>
                \A t \in Times, b \in MergedIds, amount \in Amounts :
                   pay(t, b, amount) => ret' = RetNone
          /\ call' = "transfer" =>
                \A t \in Times, b \in MergedIds, x \in Ids,
                   amount \in Amounts :
                   /\ transfer(t, b, x, amount) => ret' = RetNone
                   /\ transfer(t, x, b, amount) => ret' = RetNone
          /\ \A b \in MergedIds :
                \/ /\ b \in DOMAIN whole_accounts'
                   /\ IsMerged(whole_accounts'[b])
                   /\ whole_accounts'[b].merged_at
                         = whole_accounts[b].merged_at
                \/ /\ call' = "create_account"
                   /\ ret' = RetBool(TRUE)
                   /\ whole_accounts'[b] = NewAccount(now')]_vars

\* A deposit has just been refused although every id the callers use exists:
\* it addressed the merged account.
C7_Witness ==
    /\ call = "deposit"
    /\ ret = RetNone
    /\ DOMAIN whole_accounts = Ids
    /\ MergedIds # {}

\* C8: once an account record has its merged marker set, the record is
\* immutable: no later operation, the sweep at its start included, changes
\* its balance, its transaction list or any field of its transactions.
C8_MergedRecordImmutable ==
    [][\A id \in MergedIds :
          (id \in DOMAIN whole_accounts' /\ IsMerged(whole_accounts'[id]))
             => whole_accounts'[id] = whole_accounts[id]]_vars

\* What does hold of a merged record: nothing but the sweep touches it.
C8_MergedRecordChangedBySweepOnly ==
    [][\A id \in MergedIds :
          (id \in DOMAIN whole_accounts' /\ IsMerged(whole_accounts'[id]))
             => \/ whole_accounts'[id] = whole_accounts[id]
                \/ whole_accounts'[id] = SweepAccount(whole_accounts[id], now')
      ]_vars

\* C9: create_account(t, id) returns False and changes nothing if id denotes
\* an active account, and returns True otherwise.  After re-creating a merged
\* id the new account has balance 0, an empty log and creation time t;
\* get_balance on it at any time_at >= t, its top_spenders total and
\* get_payment_status for any payment of the old account reflect none of the
\* old account's history.
C9_CreateAccountFresh ==
    [][call' = "create_account" =>
         \A t \in Times, id \in Ids :
            create_account(t, id) =>
               IF IsActive(whole_accounts, id)
               THEN /\ ret' = RetBool(FALSE)
                    /\ whole_accounts' = whole_accounts
                    /\ payment_counter' = payment_counter
               ELSE /\ ret' = RetBool(TRUE)
                    /\ DOMAIN whole_accounts' = DOMAIN whole_accounts \cup {id}
                    /\ \A x \in DOMAIN whole_accounts \ {id} :
                          whole_accounts'[x] = whole_accounts[x]
                    /\ payment_counter' = payment_counter
                    /\ whole_accounts'[id].balance = 0
                    /\ whole_accounts'[id].transactions = << >>
                    /\ whole_accounts'[id].creation_time = t
                    /\ ~IsMerged(whole_accounts'[id])
                    /\ \A t2 \in QueryTimes :
                          t2 >= t =>
                             LET swept ==
                                   process_cashbacks(whole_accounts', t2)
                             IN /\ \A time_at \in TimesAt :
                                      time_at >= t =>
                                         Balance(swept, id, time_at)
                                            = RetInt(0)
                                /\ \A payment \in PaymentArgs :
                                      PaymentStatus(swept, id, payment)
                                         = RetNone
                                /\ \E i \in 1..Len(AccountIds) :
                                      TopSpenders(swept, Len(AccountIds))[i]
                                         = id \o "(0)"]_vars

\* create_account has just re-created an id whose earlier account paid and was
\* merged away: the other account holds that history, the new one is empty.
C9_Witness ==
    /\ call = "create_account"
    /\ ret = RetBool(TRUE)
    /\ \E id \in ActiveIds, other \in ActiveIds :
          /\ whole_accounts[id] = NewAccount(now)
          /\ \E i \in 1..Len(whole_accounts[other].transactions) :
                LET transac == whole_accounts[other].transactions[i] IN
                /\ "merged_from" \in DOMAIN transac
                /\ transac.merged_from = id
                /\ transac.operation = "payment1"

\* The latest step was a call that reported failure.
FailedStep ==
    \/ /\ call' \in {"deposit", "transfer", "pay", "get_payment_status",
                     "get_balance"}
       /\ ret' = RetNone
    \/ call' = "merge_accounts" /\ ret' = RetBool(FALSE)

\* C10: operations are all-or-nothing: whenever deposit, transfer, pay,
\* get_payment_status or get_balance returns None, or merge_accounts or
\* create_account returns False, the operation's own logic has mutated
\* nothing: the accounts and the payment counter equal what the sweep at the
\* call's timestamp alone produces from the pre-state (for create_account:
\* they equal the pre-state).
C10_FailureMutatesNothing ==
    [][/\ FailedStep =>
             /\ whole_accounts' = process_cashbacks(whole_accounts, now')
             /\ payment_counter' = payment_counter
       /\ (call' = "create_account" /\ ret' = RetBool(FALSE)) =>
             /\ whole_accounts' = whole_accounts
             /\ payment_counter' = payment_counter]_vars

\* A payment has just been refused for insufficient funds: every id the
\* callers use denotes an active account.
C10_Witness ==
    /\ call = "pay"
    /\ ret = RetNone
    /\ DOMAIN whole_accounts = Ids
    /\ MergedIds = {}

RECURSIVE Occurrences(_, _)
Occurrences(ids, payment) ==
    IF ids = {} THEN 0
    ELSE LET id == CHOOSE x \in ids : TRUE
             log == whole_accounts[id].transactions
         IN Cardinality({i \in 1..Len(log) : log[i].operation = payment})
            + Occurrences(ids \ {id}, payment)

\* C12: payment identifiers are allocated from a monotonic counter starting
\* at 1 that is never reused: the k-th successful pay (counted across all
\* accounts) returns "payment<k>", a failed pay consumes no counter value, and
\* no two successful pay calls return the same identifier, also across merges
\* and account id reuse.  The payments made so far are counted in the logs of
\* the active accounts, which hold every payment ever made exactly once.
C12_PaymentIdsMonotonicUnique ==
    /\ [](/\ payment_counter >= 1
          /\ \A k \in 1..(MaxPayments + 1) :
                Occurrences(ActiveIds, "payment" \o ToString(k))
                   = (IF k < payment_counter THEN 1 ELSE 0))
    /\ [][/\ call' = "pay" =>
                IF ret' = RetNone
                THEN payment_counter' = payment_counter
                ELSE /\ ret' = RetStr("payment" \o ToString(payment_counter))
                     /\ payment_counter' = payment_counter + 1
                     /\ Occurrences(ActiveIds, ret'.s) = 0
          /\ call' # "pay" => payment_counter' = payment_counter]_vars

\* The second payment has just been made by an account that re-uses the id of
\* the account that made the first one and was merged away.
C12_Witness ==
    /\ call = "pay"
    /\ ret = RetStr("payment2")
    /\ \E id \in ActiveIds, other \in ActiveIds :
          /\ \E i \in 1..Len(whole_accounts[id].transactions) :
                LET transac == whole_accounts[id].transactions[i] IN
                /\ transac.operation = "payment2"
                /\ "merged_from" \notin DOMAIN transac
          /\ \E i \in 1..Len(whole_accounts[other].transactions) :
                LET transac == whole_accounts[other].transactions[i] IN
                /\ transac.operation = "payment1"
                /\ "merged_from" \in DOMAIN transac
                /\ transac.merged_from = id

\* The names of the transaction kinds other than payments.
KindNames == {"deposit", "transfer_in", "transfer_out", "cashback"}

\* The log records a payment with this identifier.
RecordsPayment(transactions, payment) ==
    \E i \in 1..Len(transactions) :
        /\ StartsWith(transactions[i].operation, "payment")
        /\ transactions[i].operation = payment

\* C13: get_payment_status(t, id, payment) returns None whenever the account
\* is unknown or merged, and whenever the string payment is not the
\* identifier of a payment recorded in that account's log; for every argument
\* string, the names of the other transaction kinds included.  Stated of the
\* value every get_payment_status call that can come next returns.
C13_StatusNoneUnlessPaymentRecorded ==
    \A t \in QueryTimes :
        t >= now =>
            LET swept == process_cashbacks(whole_accounts, t) IN
            \A id \in Ids, payment \in PaymentArgs \cup KindNames :
                (\/ id \notin ActiveIds
                 \/ ~RecordsPayment(whole_accounts[id].transactions, payment))
                    => PaymentStatus(swept, id, payment) = RetNone

\* The same statement for the arguments that are payment identifiers; it
\* holds, so C13 fails through the names of the other kinds alone.
C13_StatusNoneForPaymentIds ==
    \A t \in QueryTimes :
        t >= now =>
            LET swept == process_cashbacks(whole_accounts, t) IN
            \A id \in Ids, k \in 1..(MaxPayments + 1) :
                (\/ id \notin ActiveIds
                 \/ ~RecordsPayment(whole_accounts[id].transactions,
                                    PaymentId(k)))
                    => PaymentStatus(swept, id, PaymentId(k)) = RetNone

\* The sum of the amounts of the transfer_out and payment transactions among
\* the first i transactions of a log.
RECURSIVE SpentUpTo(_, _)
SpentUpTo(transactions, i) ==
    IF i = 0 THEN 0
    ELSE (IF \/ transactions[i].operation = "transfer_out"
             \/ \E k \in 1..(MaxPayments + 1) :
                   transactions[i].operation = "payment" \o ToString(k)
          THEN transactions[i].amount ELSE 0)
         + SpentUpTo(transactions, i - 1)

Spent(id) ==
    SpentUpTo(whole_accounts[id].transactions,
              Len(whole_accounts[id].transactions))

\* Account x comes before account id in the order of top_spenders.
RanksBefore(x, id) ==
    \/ Spent(x) > Spent(id)
    \/ Spent(x) = Spent(id) /\ IdRank(x) < IdRank(id)

\* C14: top_spenders(t, n) for n >= 0 returns exactly min(n, number of active
\* accounts) entries "id(total)", where total is the sum of the amounts of the
\* transfer_out and payment transactions of that account's log (those copied
\* in by merges included); merged accounts never appear, accounts with total 0
\* do, and the list is ordered by descending total with ties broken by
\* ascending account id: entry i names the active account that exactly i - 1
\* active accounts come before.  Stated of the value every top_spenders call
\* that can come next returns.
C14_TopSpendersRanking ==
    \A t \in QueryTimes :
        t >= now =>
            LET swept == process_cashbacks(whole_accounts, t) IN
            \A n \in Ns :
                LET result == TopSpenders(swept, n) IN
                /\ Len(result) = (IF n < Cardinality(ActiveIds)
                                  THEN n ELSE Cardinality(ActiveIds))
                /\ \A i \in 1..Len(result) :
                      \E id \in ActiveIds :
                         /\ result[i]
                               = id \o "(" \o ToString(Spent(id)) \o ")"
                         /\ Cardinality({x \in ActiveIds :
                                            RanksBefore(x, id)}) = i - 1

\* top_spenders has just listed both accounts, the later id first because it
\* spent more, the other with a total of 0.
C14_Witness ==
    /\ call = "top_spenders"
    /\ ret = RetList(<<"b(100)", "a(0)">>)

\* The remainder by d of the number written with the digits from position i
\* up.
RECURSIVE RemAbove(_, _, _)
RemAbove(digits, i, d) ==
    IF i > Len(digits) THEN 0
    ELSE (Base * RemAbove(digits, i + 1, d) + digits[i]) % d

\* floor(digits / d) in exact integer arithmetic, by long division; d < 2^15.
DivDigits(digits, d) ==
    Normalize([i \in 1..Len(digits) |->
        (Base * RemAbove(digits, i + 1, d) + digits[i]) \div d])

\* floor(amount * 2 / 100) in exact integer arithmetic.
FloorTwoPercent(amount) == DivDigits(ScaleDigits(amount, 2, 0), 100)

\* C15: every cashback transaction's amount equals
\* floor(payment.amount * 2 / 100) for non-negative integer payment amounts:
\* the amount pay computes for its cashback transaction is that floor.
C15_CashbackIsFloorOfTwoPercent ==
    call = "pay" => cashback_amount = FloorTwoPercent(pay_amount)

\* The same statement for the amounts up to 2^53, which are doubles; it holds.
C15_CashbackIsFloorUpTo2To53 ==
    (call = "pay" /\ BitLength(pay_amount) <= 53) =>
        cashback_amount = FloorTwoPercent(pay_amount)

\* The rest of C15, on the ledger: in every reachable state every cashback
\* transaction of every log (original or copied in by a merge) is paired with
\* exactly one payment transaction of the same log whose identifier is the
\* cashback's related_payment, is dated one day after it and carries
\* floor(payment.amount * 2 / 100).  It holds.
C15_CashbackPairedInLedger ==
    \A id \in DOMAIN whole_accounts :
        LET log == whole_accounts[id].transactions IN
        \A j \in 1..Len(log) :
            log[j].operation = "cashback" =>
                LET payments ==
                      {i \in 1..Len(log) :
                          /\ log[i].operation # "cashback"
                          /\ log[i].operation = log[j].related_payment}
                IN /\ Cardinality(payments) = 1
                   /\ \A i \in payments :
                         /\ SubSeq(log[i].operation, 1, 7) = "payment"
                         /\ log[j].timestamp = log[i].timestamp + 86400000
                         /\ log[j].amount = (log[i].amount * 2) \div 100

\* C16: historical answers are stable under later mutations: with
\* non-decreasing timestamps, if get_balance(t, id, time_at) with time_at < t
\* returns an integer v, then after any further operations in which id is not
\* re-created by create_account, get_balance(t', id, time_at) for any later
\* t' >= t also returns v.  In every state the answer does not depend on the
\* timestamp the query carries, and no step that keeps id's record changes
\* the integer answer about a time_at already past.
C16_HistoricalAnswersStable ==
    /\ [](\A t \in QueryTimes :
             t >= now =>
                LET swept == process_cashbacks(whole_accounts, t) IN
                \A id \in Ids, time_at \in TimesAt :
                   Balance(swept, id, time_at)
                      = Balance(whole_accounts, id, time_at))
    /\ [][\A id \in Ids, time_at \in TimesAt :
             (/\ time_at < now
              /\ SameRecord(id)
              /\ Balance(whole_accounts, id, time_at).kind = "int")
                => Balance(whole_accounts', id, time_at)
                      = Balance(whole_accounts, id, time_at)]_vars

\* get_balance has just answered about the first instant, a day later, for an
\* account that has absorbed another, matured a cashback or moved money since:
\* its live balance is no longer the answer, which no other query explains.
C16_Witness ==
    /\ call = "get_balance"
    /\ ret.kind = "int"
    /\ now = 1 + MILLISECONDS_IN_1_DAY
    /\ \E id \in DOMAIN whole_accounts :
          LET log == whole_accounts[id].transactions IN
          /\ Balance(whole_accounts, id, 1) = ret
          /\ whole_accounts[id].balance # ret.i
          /\ \E i \in 1..Len(log) :
                \/ log[i].operation # "cashback" /\ log[i].timestamp = now
                \/ "merged_at" \in DOMAIN log[i] /\ log[i].merged_at = now
          /\ \A x \in DOMAIN whole_accounts, time_at \in TimesAt :
                <<x, time_at>> # <<id, 1>>
                   => Balance(whole_accounts, x, time_at) # ret

\* The payments an account holds because their cashback was still pending
\* when the account that held them was merged into it: positions in its log
\* of payment transactions copied in before the cashback was due.
AbsorbedPending(transactions) ==
    {i \in 1..Len(transactions) :
        /\ StartsWith(transactions[i].operation, "payment")
        /\ "merged_at" \in DOMAIN transactions[i]
        /\ transactions[i].merged_at
              < transactions[i].timestamp + MILLISECONDS_IN_1_DAY}

\* The payments an account holds through merges: positions in its log of
\* payment transactions copied in, whether their cashback was pending at the
\* latest merge or had matured on the way.
Absorbed(transactions) ==
    {i \in 1..Len(transactions) :
        /\ StartsWith(transactions[i].operation, "payment")
        /\ "merged_at" \in DOMAIN transactions[i]}

\* C17: a cashback still pending when its account is merged away is credited
\* exactly once to the absorbing account: if b paid at t0 (payment p, cashback
\* c > 0) and merge_accounts(m, a, b) succeeds with m < t0 + one day, then
\* after the first sweeping operation with timestamp >= t0 + one day a's live
\* balance has increased by c exactly once, get_payment_status on a for p
\* returns "CASHBACK_RECEIVED", and the same holds through a chain of further
\* merges.  Stated of every active account that holds a payment through
\* merges, however many brought it there: its log holds the cashback exactly
\* once, deposited after a sweeping call at or after t0 + one day and not
\* before t0 + one day, the live balance is the other transactions plus the
\* deposited cashbacks, and the status read at t is "CASHBACK_RECEIVED"
\* exactly from t0 + one day on.
C17_PendingCashbackCreditedOnce ==
    \A id \in ActiveIds :
        LET log == whole_accounts[id].transactions IN
        /\ \A i \in Absorbed(log) :
              LET due == log[i].timestamp + MILLISECONDS_IN_1_DAY
                  cashbacks == {j \in 1..Len(log) :
                                  /\ log[j].operation = "cashback"
                                  /\ log[j].related_payment = log[i].operation}
              IN /\ Cardinality(cashbacks) = 1
                 /\ \A j \in cashbacks :
                       /\ log[j].amount > 0
                       /\ (SweepingCall /\ now >= due) => log[j].deposited
                       /\ now < due => ~log[j].deposited
                 /\ \A t \in QueryTimes :
                       t >= now =>
                          PaymentStatus(process_cashbacks(whole_accounts, t),
                                        id, log[i].operation)
                          = RetStr(IF t >= due THEN "CASHBACK_RECEIVED"
                                   ELSE "IN_PROGRESS")
        /\ Absorbed(log) # {} =>
              whole_accounts[id].balance = BaseSum(log) + DepositedSum(log)

\* get_payment_status has just found the cashback received on an account that
\* was credited with it once, at the end of a chain of two merges made while
\* it was pending: the account it was absorbed from had itself absorbed it.
C17_Witness ==
    /\ call = "get_payment_status"
    /\ ret = RetStr("CASHBACK_RECEIVED")
    /\ \E id \in ActiveIds, from \in MergedIds :
          LET log == whole_accounts[id].transactions
              old == whole_accounts[from].transactions
          IN /\ \E i \in AbsorbedPending(log) :
                   /\ log[i].operation = "payment1"
                   /\ log[i].merged_from = from
             /\ \E i \in AbsorbedPending(old) : old[i].operation = "payment1"
             /\ whole_accounts[id].balance = BaseSum(log) + 2
             /\ Entries(log) = 2

\* The sum of the live balances of the accounts of ids.
RECURSIVE TotalBalance(_, _)
TotalBalance(wa, ids) ==
    IF ids = {} THEN 0
    ELSE LET id == CHOOSE x \in ids : TRUE
         IN wa[id].balance + TotalBalance(wa, ids \ {id})

\* The amounts of the cashbacks among the first i transactions of a log that
\* are not deposited and are due at the timestamp.
RECURSIVE MaturingUpTo(_, _, _)
MaturingUpTo(transactions, i, timestamp) ==
    IF i = 0 THEN 0
    ELSE (IF /\ transactions[i].operation = "cashback"
             /\ ~transactions[i].deposited
             /\ transactions[i].timestamp <= timestamp
          THEN transactions[i].amount ELSE 0)
         + MaturingUpTo(transactions, i - 1, timestamp)

\* What a sweep at the timestamp matures on the accounts of ids.
RECURSIVE Maturing(_, _)
Maturing(ids, timestamp) ==
    IF ids = {} THEN 0
    ELSE LET id == CHOOSE x \in ids : TRUE
             log == whole_accounts[id].transactions
         IN MaturingUpTo(log, Len(log), timestamp)
            + Maturing(ids \ {id}, timestamp)

\* The change of the sum of the live balances of the active accounts.
ActiveTotalChange ==
    TotalBalance(whole_accounts',
                 {id \in DOMAIN whole_accounts' :
                     ~IsMerged(whole_accounts'[id])})
    - TotalBalance(whole_accounts, ActiveIds)

\* C18: money is conserved: the sum of the live balances of the active
\* accounts equals the successful deposits minus the successful payments plus
\* the cashbacks the sweep has matured on accounts active at that moment;
\* transfers, merges and account re-creation never change that sum.  Stated
\* step by step from the empty ledger, whose sum is 0: each call changes the
\* sum by what its sweep matures on active accounts, plus the amount of a
\* successful deposit, minus the amount of a successful payment.
C18_MoneyConserved ==
    [][/\ call' = "create_account" => ActiveTotalChange = 0
       /\ call' \in {"transfer", "merge_accounts", "top_spenders",
                      "get_payment_status", "get_balance"} =>
             ActiveTotalChange = Maturing(ActiveIds, now')
       /\ call' = "deposit" =>
             \A t \in Times, id \in Ids, a \in Amounts :
                deposit(t, id, a) =>
                   ActiveTotalChange
                      = Maturing(ActiveIds, t)
                        + (IF ret' = RetNone THEN 0 ELSE a)
       /\ call' = "pay" =>
             \A t \in Times, id \in Ids, a \in Amounts :
                pay(t, id, a) =>
                   ActiveTotalChange
                      = Maturing(ActiveIds, t)
                        - (IF ret' = RetNone THEN 0 ELSE a)]_vars

\* A merge has just absorbed an account whose cashback its sweep matured: the
\* absorbing account holds the deposited cashback, and the merged record still
\* shows a balance that no longer counts.
C18_Witness ==
    /\ call = "merge_accounts"
    /\ ret = RetBool(TRUE)
    /\ \E a \in ActiveIds, b \in MergedIds :
          /\ DepositedSum(whole_accounts[a].transactions) > 0
          /\ whole_accounts[b].merged_at = now
          /\ whole_accounts[b].balance > 0
          /\ whole_accounts[a].balance >= whole_accounts[b].balance

\* C19: no overdraft: for operations whose amounts are non-negative integers,
\* the live balance of every account, active or merged, is >= 0 in every
\* reachable state.
C19_NoOverdraft ==
    \A id \in DOMAIN whole_accounts : whole_accounts[id].balance >= 0

\* A transfer has just been refused between two active accounts that both hold
\* less than the amount, one of them a matured cashback and nothing else.
C19_Witness ==
    /\ call = "transfer"
    /\ ret = RetNone
    /\ DOMAIN whole_accounts = Ids
    /\ MergedIds = {}
    /\ \A id \in Ids, a \in Amounts : whole_accounts[id].balance < a
    /\ \E id \in Ids : whole_accounts[id].balance > 0

\* C20: the draft and the final implementation are observationally
\* equivalent on their common operations: for every sequence of
\* create_account, deposit, transfer and top_spenders calls (no pay, no
\* merge_accounts, non-negative amounts, n >= 0) run on both from the empty
\* state, each call returns the same value in both, and each account's
\* balance in the draft equals its live balance in the final implementation
\* after every call.
C20_DraftEquivalentToFinal ==
    /\ draft_ret = ret
    /\ DOMAIN _balances = DOMAIN whole_accounts
    /\ \A id \in DOMAIN _balances :
          _balances[id] = whole_accounts[id].balance

\* Both implementations have just listed the later id first, for the transfer
\* it made.
C20_Witness ==
    /\ call = "top_spenders"
    /\ draft_ret = RetList(<<"b(100)", "a(0)">>)
    /\ ret = draft_ret
    /\ _outgoing_total["b"] = 100
    /\ _balances["a"] = 100

\* The draft's side of C19: its balances are never negative.
C19_DraftNoOverdraft ==
    \A id \in DOMAIN _balances : _balances[id] >= 0

====
